---- MODULE Spec2Model ----
(***************************************************************************)
(* PolyPlayer (src/__init__.py): the per-channel queues, the play_queue    *)
(* polling loop, the command handlers that share the players registry,     *)
(* and the Translator's spotify token cache.                               *)
(*                                                                         *)
(* Every coroutine runs on one event loop, so the code between two awaits  *)
(* is one atomic step.  An action below is one such stretch of a handler.  *)
(***************************************************************************)
EXTENDS Integers, Sequences, FiniteSets, TLC

\* ------------------------------------------------------------------ bounds
NumReqs == 2
MaxStarted == 3
MaxCmds == 2
MaxSkip == 2
NumCalls == 2
MaxNow == 40
NumFetches == 3
MaxArtists == 2

\* line 399: datetime.timedelta(minutes=15)
Margin == 15

\* the get_video calls, and the videos a response of the upstream can describe
Fetches == 1..NumFetches
Videos == {1, 2}

\* the track data the spotify API can answer with (name, artists' names), and
\* the lists of video ids a search can answer with
Names == {"Song", "Tune"}
ArtistNames == {"A", "B", "Artist"}
ArtistLists == UNION {[1..n -> ArtistNames] : n \in 0..MaxArtists}
Tracks == [name : Names, artists : ArtistLists]
NoTrack == [name |-> "", artists |-> <<>>]
SearchResults == UNION {[1..n -> Videos] : n \in 0..2}

\* line 102: a new PCMVolumeTransformer has volume 1.0
Nominal == 100

\* the values of volume_percentage that are followed
Percentages == {49, 50, 100, 200, 201}

Channels == {1, 2}
\* A play invocation r that gets as far as line 135 builds VideoInfo r; the
\* ChannelPlayer it constructs at line 134 (if any) is object r.
Reqs == 1..NumReqs
None == 0

\* the spotify_to_youtube_id calls, the minutes the clock moves at a time, and
\* the lifetimes (expires_in, in minutes) the token endpoint hands out
Calls == 1..NumCalls
ClockSteps == {5}
Lifetimes == {20, 30}
NoExpiry == -1

VARIABLES
    players,      \* PolyPlayer.players: the dict, as its (key, value) pairs in insertion order
    queue,        \* ChannelPlayer.queue, per ChannelPlayer object
    now_playing,  \* ChannelPlayer.now_playing, per object (None = 0)
    loop,         \* ChannelPlayer.loop, per object
    conn,         \* state of ChannelPlayer.connection, per object
    pc,           \* where each play invocation stands ("done": it has returned or raised)
    reqChan,      \* ctx.author.voice.channel.id of each play invocation
    tickpc,       \* "idle": play_queue sleeps; "disconnect": suspended at line 93;
                  \* "stopped": an exception has ended the loop
    snap,         \* what is left of dict(self.players).items() in the running tick
    started,      \* history: the items handed to connection.play, per channel
    enqueued,     \* history: the items appended at line 135, per channel
    cmds,         \* number of pause/resume/loop/skip/bare play commands so far
    now,          \* datetime.datetime.now(), in minutes
    spotify_token,             \* Translator._spotify_token (None = 0)
    spotify_token_expires_at,  \* Translator._spotify_token_expires_at (None = -1)
    tpc,          \* where each spotify_to_youtube_id call stands
    sent,         \* the bearer token each call put in its track request
    validAtStart, \* history: the cached token was valid when the call began
    cachedAtStart,\* history: the cached token when the call began
    exchanges,    \* history: number of token requests posted so far
    fpc,          \* where each get_video call stands
    lookups,      \* number of GET /api/v1/videos/{id} requests each call has issued
    answers,      \* the responses each call has received, in order
    fetched,      \* what each call returned (None = 0 while it has not)
    stage,        \* the await of lines 123-128 a play invocation is suspended at
    failure,      \* history: the kind of failure that ended a play invocation
    reply,        \* the error message a play invocation sent with ctx.reply
    raised,       \* the exception that left a play invocation's handler
    gain,         \* connection.source.volume, in percent, per ChannelPlayer object
    volres,       \* how the last volume command ended
    qpc,          \* where the tail of spotify_to_youtube_id (lines 390-394) stands
    track,        \* data of line 390
    query,        \* the q of the search request
    searches,     \* number of search requests sent
    results,      \* the answer of the search
    found         \* the video id returned (None = 0 while there is none)

playerVars == <<players, queue, now_playing, loop, conn, pc, reqChan, tickpc, snap,
                started, enqueued, cmds>>

tokenVars == <<now, spotify_token, spotify_token_expires_at, tpc, sent,
               validAtStart, cachedAtStart, exchanges>>

fetchVars == <<fpc, lookups, answers, fetched>>

resolveVars == <<stage, failure, reply, raised>>

volumeVars == <<gain, volres>>

queryVars == <<qpc, track, query, searches, results, found>>

vars == <<playerVars, tokenVars, fetchVars, resolveVars, volumeVars, queryVars>>

\* what the handlers of PolyPlayer, of the token cache and of get_video leave alone
exceptPlayer == <<tokenVars, fetchVars, resolveVars, volumeVars, queryVars>>

exceptTick == <<tokenVars, fetchVars, resolveVars, volres, queryVars>>

exceptToken == <<playerVars, fetchVars, resolveVars, volumeVars, queryVars>>

exceptFetch == <<playerVars, tokenVars, resolveVars, volumeVars, queryVars>>

exceptResolve == <<tokenVars, fetchVars, volumeVars, queryVars>>

exceptQuery == <<playerVars, tokenVars, fetchVars, resolveVars, volumeVars>>

exceptVolume == <<tokenVars, fetchVars, resolveVars, queryVars>>

\* ------------------------------------------------------------- the registry
\* self.players.get(channel_id)
Lookup(reg, c) ==
    IF \E i \in DOMAIN reg : reg[i][1] = c
    THEN reg[CHOOSE i \in DOMAIN reg : reg[i][1] = c][2]
    ELSE None

\* self.players[channel_id] = player: an existing key keeps its place
Register(reg, c, p) ==
    IF \E i \in DOMAIN reg : reg[i][1] = c
    THEN [i \in DOMAIN reg |-> IF reg[i][1] = c THEN <<c, p>> ELSE reg[i]]
    ELSE Append(reg, <<c, p>>)

\* line 94, as a bug would have it: the entry is left in the registry
Remove_Keep(reg, c) == reg

\* del self.players[guild_id]
Remove(reg, c) == SelectSeq(reg, LAMBDA e : e[1] # c)

\* ------------------------------------------------------------ list slicing
Min(a, b) == IF a < b THEN a ELSE b

\* q[n:] for n >= 0
Drop(q, n) == SubSeq(q, Min(n, Len(q)) + 1, Len(q))

\* q[:n] for n >= 0
Take(q, n) == SubSeq(q, 1, Min(n, Len(q)))

\* --------------------------------------------------------------- transport
\* line 90, as a bug would have it: is_paused() is not asked
Busy_PlayingOnly(cn, p) == cn[p] = "playing"

\* VoiceClient.is_playing() or VoiceClient.is_paused()
Busy(cn, p) == cn[p] \in {"playing", "paused"}

\* VoiceClient.pause(): acts on a playing stream only
ConnPause(s) == IF s = "playing" THEN "paused" ELSE s

\* VoiceClient.resume(): acts on a paused stream only
ConnResume(s) == IF s = "paused" THEN "playing" ELSE s

\* ----------------------------------------------------------------- Init
Init ==
    /\ players = <<>>
    /\ queue = [p \in Reqs |-> <<>>]
    /\ now_playing = [p \in Reqs |-> None]
    /\ loop = [p \in Reqs |-> FALSE]
    /\ conn = [p \in Reqs |-> "none"]
    /\ pc = [r \in Reqs |-> "init"]
    /\ reqChan = [r \in Reqs |-> 1]
    /\ tickpc = "idle"
    /\ snap = <<>>
    /\ started = [c \in Channels |-> <<>>]
    /\ enqueued = [c \in Channels |-> <<>>]
    /\ cmds = 0
    /\ now = 0
    /\ spotify_token = None
    /\ spotify_token_expires_at = NoExpiry
    /\ tpc = [k \in Calls |-> "idle"]
    /\ sent = [k \in Calls |-> None]
    /\ validAtStart = [k \in Calls |-> FALSE]
    /\ cachedAtStart = [k \in Calls |-> None]
    /\ exchanges = 0
    /\ fpc = [f \in Fetches |-> "idle"]
    /\ lookups = [f \in Fetches |-> 0]
    /\ answers = [f \in Fetches |-> <<>>]
    /\ fetched = [f \in Fetches |-> None]
    /\ stage = [r \in Reqs |-> "none"]
    /\ failure = [r \in Reqs |-> "none"]
    /\ reply = [r \in Reqs |-> "none"]
    /\ raised = [r \in Reqs |-> "none"]
    /\ gain = [p \in Reqs |-> Nominal]
    /\ volres = "none"
    /\ qpc = "idle"
    /\ track = NoTrack
    /\ query = ""
    /\ searches = 0
    /\ results = <<>>
    /\ found = None

\* At most MaxCmds commands other than play(url) are followed, so that a time
\* comes after which no command arrives.
Counted == cmds < MaxCmds /\ cmds' = cmds + 1

\* --------------------------------------------------------- play_queue (tick)
\* line 97, as a bug would have it: pop() takes the newest item
Pop_Last(q) == [item |-> q[Len(q)], rest |-> SubSeq(q, 1, Len(q) - 1)]

\* line 97: video_info = player.queue.pop(0)
Pop(q) == [item |-> Head(q), rest |-> Tail(q)]

\* lines 98-99, as a bug would have it: the looped item is put back in front
Requeue_Front(rest, v, lp) == IF lp THEN <<v>> \o rest ELSE rest

\* lines 98-99: if player.loop: player.queue.append(video_info)
Requeue(rest, v, lp) == IF lp THEN Append(rest, v) ELSE rest

\* lines 89-105: the for loop over the snapshot s, run until it suspends at
\* "await player.connection.disconnect()" or ends.  rest is the part of the
\* snapshot not yet done; when non-empty its head is the entry being disconnected.
RECURSIVE RunTick(_, _, _, _, _)
RunTick(q, np, cn, st, s) ==
    IF s = <<>>
    THEN [q |-> q, np |-> np, cn |-> cn, st |-> st, rest |-> <<>>]
    ELSE LET c == s[1][1]
             p == s[1][2]
         IN  IF Busy(cn, p)
             THEN RunTick(q, np, cn, st, Tail(s))
             ELSE IF q[p] = <<>>
             THEN [q |-> q, np |-> np, cn |-> cn, st |-> st, rest |-> s]
             ELSE LET v == Pop(q[p]).item
                  IN  RunTick([q EXCEPT ![p] = Requeue(Pop(q[p]).rest, v, loop[p])],
                              [np EXCEPT ![p] = v],
                              [cn EXCEPT ![p] = "playing"],
                              [st EXCEPT ![c] = Append(@, v)],
                              Tail(s))

TickRun(cn, s) ==
    LET r == RunTick(queue, now_playing, cn, started, s)
    IN  /\ queue' = r.q
        /\ now_playing' = r.np
        /\ conn' = r.cn
        /\ started' = r.st
        /\ snap' = r.rest
        /\ tickpc' = IF r.rest = <<>> THEN "idle" ELSE "disconnect"
        /\ gain' = [p \in Reqs |-> IF ~Busy(cn, p) /\ r.cn[p] = "playing"
                                    THEN Nominal ELSE gain[p]]

\* line 89: a new iteration of the loop takes its snapshot and runs
Tick ==
    /\ tickpc = "idle"
    /\ TickRun(conn, players)
    /\ UNCHANGED <<players, loop, pc, reqChan, enqueued, cmds>>
    /\ UNCHANGED exceptTick

\* lines 93-95: disconnect() returns; the entry is deleted and the loop goes on
TickDisconnected ==
    /\ tickpc = "disconnect"
    /\ players' = Remove(players, snap[1][1])
    /\ TickRun([conn EXCEPT ![snap[1][2]] = "closed"], Tail(snap))
    /\ UNCHANGED <<loop, pc, reqChan, enqueued, cmds>>
    /\ UNCHANGED exceptTick

\* the transport reaches the end of a stream (a channel is followed for
\* MaxStarted starts; without loop it has at most NumReqs < MaxStarted of them)
Finish(p) ==
    /\ conn[p] = "playing"
    /\ Len(started[reqChan[p]]) < MaxStarted
    /\ conn' = [conn EXCEPT ![p] = "idle"]
    /\ UNCHANGED <<players, queue, now_playing, loop, pc, reqChan, tickpc, snap,
                   started, enqueued, cmds>>
    /\ UNCHANGED exceptPlayer

\* ------------------------------------------------------------------- play
\* lines 113-115: a paused player with an empty queue is resumed
PlayResume(cn, c) ==
    LET p == Lookup(players, c)
    IN  IF p # None /\ cn[p] = "paused" /\ queue[p] = <<>>
        THEN [cn EXCEPT ![p] = ConnResume(cn[p])]
        ELSE cn

\* lines 108-123 with a url: up to the first await of the resolution
PlayStart(r, c) ==
    /\ pc[r] = "init"
    /\ \A r2 \in Reqs : r2 < r => pc[r2] # "init"
    /\ reqChan' = [reqChan EXCEPT ![r] = c]
    /\ conn' = PlayResume(conn, c)
    /\ pc' = [pc EXCEPT ![r] = "resolve"]
    /\ UNCHANGED <<players, queue, now_playing, loop, tickpc, snap, started,
                   enqueued, cmds>>
    /\ UNCHANGED exceptPlayer

\* lines 108-120 without a url
PlayNoUrl(c) ==
    /\ Counted
    /\ conn' = PlayResume(conn, c)
    /\ UNCHANGED <<players, queue, now_playing, loop, pc, reqChan, tickpc, snap,
                   started, enqueued>>
    /\ UNCHANGED exceptPlayer

\* lines 135-141: the item is appended and the player (re)registered
Enqueue(r, p) ==
    /\ queue' = [queue EXCEPT ![p] = Append(@, r)]
    /\ players' = Register(players, reqChan[r], p)
    /\ enqueued' = [enqueued EXCEPT ![reqChan[r]] = Append(@, r)]
    /\ pc' = [pc EXCEPT ![r] = "done"]

\* lines 123-134: the resolution succeeded; the registry is read again
PlayResolved(r) ==
    /\ pc[r] = "resolve"
    /\ LET p == Lookup(players, reqChan[r])
       IN  IF p # None
           THEN /\ Enqueue(r, p)
                /\ UNCHANGED conn
           ELSE /\ pc' = [pc EXCEPT ![r] = "connect"]
                /\ UNCHANGED <<players, queue, enqueued, conn>>
    /\ UNCHANGED <<now_playing, loop, reqChan, tickpc, snap, started, cmds>>
    /\ UNCHANGED exceptPlayer

\* lines 123-131: invalid url, BadResponseError, or an exception that escapes
PlayResolveFails(r) ==
    /\ pc[r] = "resolve"
    /\ pc' = [pc EXCEPT ![r] = "done"]
    /\ UNCHANGED <<players, queue, now_playing, loop, conn, reqChan, tickpc, snap,
                   started, enqueued, cmds>>
    /\ UNCHANGED exceptPlayer

\* line 134: connect() returns a new connection, wrapped in a new ChannelPlayer
PlayConnected(r) ==
    /\ pc[r] = "connect"
    /\ conn' = [conn EXCEPT ![r] = "idle"]
    /\ Enqueue(r, r)
    /\ UNCHANGED <<now_playing, loop, reqChan, tickpc, snap, started, cmds>>
    /\ UNCHANGED exceptPlayer

\* line 134: connect() raises
PlayConnectFails(r) ==
    /\ pc[r] = "connect"
    /\ pc' = [pc EXCEPT ![r] = "done"]
    /\ UNCHANGED <<players, queue, now_playing, loop, conn, reqChan, tickpc, snap,
                   started, enqueued, cmds>>
    /\ UNCHANGED exceptPlayer

\* ------------------------------------------------------------ other commands
\* lines 201-212
Pause(c) ==
    /\ Counted
    /\ Lookup(players, c) # None
    /\ LET p == Lookup(players, c)
       IN  conn' = [conn EXCEPT ![p] = IF conn[p] = "paused" THEN ConnResume(conn[p])
                                       ELSE ConnPause(conn[p])]
    /\ UNCHANGED <<players, queue, now_playing, loop, pc, reqChan, tickpc, snap,
                   started, enqueued>>
    /\ UNCHANGED exceptPlayer

\* lines 215-226
Resume(c) ==
    /\ Counted
    /\ Lookup(players, c) # None
    /\ LET p == Lookup(players, c)
       IN  conn' = [conn EXCEPT ![p] = IF conn[p] = "paused" THEN ConnResume(conn[p])
                                       ELSE conn[p]]
    /\ UNCHANGED <<players, queue, now_playing, loop, pc, reqChan, tickpc, snap,
                   started, enqueued>>
    /\ UNCHANGED exceptPlayer

\* lines 238-241: value is "on" (True), "off" (False) or "toggle" (None)
LoopValue(cur, value) == IF value = "toggle" THEN ~cur ELSE value = "on"

\* lines 229-242
Loop(c, value) ==
    /\ Counted
    /\ Lookup(players, c) # None
    /\ LET p == Lookup(players, c)
       IN  loop' = [loop EXCEPT ![p] = LoopValue(loop[p], value)]
    /\ UNCHANGED <<players, queue, now_playing, conn, pc, reqChan, tickpc, snap,
                   started, enqueued>>
    /\ UNCHANGED exceptPlayer

\* line 256, as a bug would have it: the slice starts one item too far
SkipQueue_OneMore(q, steps, lp) ==
    LET q1 == Drop(q, steps + 1)
    IN  IF lp THEN q1 \o Take(q1, steps) ELSE q1

\* lines 256-258
SkipQueue(q, steps, lp) ==
    LET q1 == Drop(q, steps)
    IN  IF lp THEN q1 \o Take(q1, steps) ELSE q1

\* lines 245-259
Skip(c, steps) ==
    /\ Counted
    /\ Lookup(players, c) # None
    /\ LET p == Lookup(players, c)
       IN  queue' = [queue EXCEPT ![p] = IF queue[p] = <<>> THEN queue[p]
                                         ELSE SkipQueue(queue[p], steps, loop[p])]
    /\ UNCHANGED <<players, now_playing, loop, conn, pc, reqChan, tickpc, snap,
                   started, enqueued>>
    /\ UNCHANGED exceptPlayer

\* ------------------------------------------------------------------- Next
PlayStep ==
    \/ \E r \in Reqs, c \in Channels : PlayStart(r, c)
    \/ \E r \in Reqs : PlayResolved(r)
    \/ \E r \in Reqs : PlayResolveFails(r)
    \/ \E r \in Reqs : PlayConnected(r)
    \/ \E r \in Reqs : PlayConnectFails(r)

TickStep == Tick \/ TickDisconnected

FinishStep == \E p \in Reqs : Finish(p)

Next ==
    \/ PlayStep
    \/ TickStep
    \/ FinishStep
    \/ \E c \in Channels : PlayNoUrl(c)
    \/ \E c \in Channels : Pause(c)
    \/ \E c \in Channels : Resume(c)
    \/ \E c \in Channels, v \in {"on", "off", "toggle"} : Loop(c, v)
    \/ \E c \in Channels, n \in 0..MaxSkip : Skip(c, n)

Spec == Init /\ [][Next]_vars

\* The same program when nobody uses the loop and skip commands.
NextFifo ==
    \/ PlayStep
    \/ TickStep
    \/ FinishStep
    \/ \E c \in Channels : PlayNoUrl(c)
    \/ \E c \in Channels : Pause(c)
    \/ \E c \in Channels : Resume(c)

SpecFifo == Init /\ [][NextFifo]_vars

\* tasks.loop(seconds=1) keeps running play_queue, and an awaited disconnect
\* returns; the transport plays every stream to its end.
FairFifo == SpecFifo /\ WF_vars(TickStep) /\ WF_vars(FinishStep)

\* -------------------------------------------------------------- Translator
\* lines 397-400: the test that makes update_spotify_token return at once
KeepsToken(exp, t) == exp # NoExpiry /\ exp < t + Margin

\* history vocabulary: the cached token is more than Margin minutes from its expiry
TokenValid(tok, exp, t) == tok # None /\ exp # NoExpiry /\ exp - t > Margin

\* lines 378-383 and 396-402: spotify_to_youtube_id calls update_spotify_token,
\* which returns at once (the track request goes out with the cached token) or
\* posts a token request
TrackStart(k) ==
    /\ tpc[k] = "idle"
    /\ \A k2 \in Calls : k2 < k => tpc[k2] # "idle"
    /\ validAtStart' = [validAtStart EXCEPT
                            ![k] = TokenValid(spotify_token, spotify_token_expires_at, now)]
    /\ cachedAtStart' = [cachedAtStart EXCEPT ![k] = spotify_token]
    /\ IF KeepsToken(spotify_token_expires_at, now)
       THEN /\ tpc' = [tpc EXCEPT ![k] = "get"]
            /\ sent' = [sent EXCEPT ![k] = spotify_token]
            /\ UNCHANGED exchanges
       ELSE /\ tpc' = [tpc EXCEPT ![k] = "post"]
            /\ exchanges' = exchanges + 1
            /\ UNCHANGED sent
    /\ UNCHANGED <<now, spotify_token, spotify_token_expires_at>>
    /\ UNCHANGED exceptToken

\* lines 410-414 and 380-383: the token endpoint answers with a token (call k
\* is handed token k), which is cached and put in the track request
TokenGranted(k, life) ==
    /\ tpc[k] = "post"
    /\ spotify_token' = k
    /\ spotify_token_expires_at' = now + life
    /\ sent' = [sent EXCEPT ![k] = k]
    /\ tpc' = [tpc EXCEPT ![k] = "get"]
    /\ UNCHANGED <<now, validAtStart, cachedAtStart, exchanges>>
    /\ UNCHANGED exceptToken

\* lines 411-412: the token endpoint answers invalid_client
TokenRefused(k) ==
    /\ tpc[k] = "post"
    /\ tpc' = [tpc EXCEPT ![k] = "invalid_client"]
    /\ UNCHANGED <<now, spotify_token, spotify_token_expires_at, sent, validAtStart,
                   cachedAtStart, exchanges>>
    /\ UNCHANGED exceptToken

\* lines 384-389: the track request is answered 401, with another error, or 200
TrackAnswered(k, status) ==
    /\ tpc[k] = "get"
    /\ status = "ok" => sent[k] # None
    /\ tpc' = [tpc EXCEPT ![k] = status]
    /\ UNCHANGED <<now, spotify_token, spotify_token_expires_at, sent, validAtStart,
                   cachedAtStart, exchanges>>
    /\ UNCHANGED exceptToken

\* time passes
ClockAdvance(d) ==
    /\ now + d <= MaxNow
    /\ now' = now + d
    /\ UNCHANGED <<spotify_token, spotify_token_expires_at, tpc, sent, validAtStart,
                   cachedAtStart, exchanges>>
    /\ UNCHANGED exceptToken

NextToken ==
    \/ \E k \in Calls : TrackStart(k)
    \/ \E k \in Calls, life \in Lifetimes : TokenGranted(k, life)
    \/ \E k \in Calls : TokenRefused(k)
    \/ \E k \in Calls, status \in {"ok", "invalid_token", "bad_response"} : TrackAnswered(k, status)
    \/ \E d \in ClockSteps : ClockAdvance(d)

SpecToken == Init /\ [][NextToken]_vars

\* ------------------------------------------- play_queue when the transport raises
\* play_queue has no try: an exception of disconnect() (line 93) or of play()
\* (line 102) leaves the for loop and the coroutine.  Whether tasks.loop runs
\* play_queue again after that depends on the exception (stops).
AfterRaise(stops) == IF stops THEN "stopped" ELSE "idle"

\* line 93: the awaited disconnect() raises; line 94 is not reached
TickDisconnectRaises(stops) ==
    /\ tickpc = "disconnect"
    /\ snap' = <<>>
    /\ tickpc' = AfterRaise(stops)
    /\ UNCHANGED <<players, queue, now_playing, loop, conn, pc, reqChan, started,
                   enqueued, cmds>>
    /\ UNCHANGED exceptPlayer

\* where the for loop stands when it runs next: at the start of a new
\* snapshot, or behind the entry whose disconnect() has returned
TickFrom ==
    IF tickpc = "disconnect"
    THEN [cn |-> [conn EXCEPT ![snap[1][2]] = "closed"], s |-> Tail(snap),
          reg |-> Remove(players, snap[1][1])]
    ELSE [cn |-> conn, s |-> players, reg |-> players]

\* lines 89-102 up to a play() that raises at the i-th entry still to do: the
\* entries before it are done, lines 97-100 have run for it, the ones after it
\* are left
Raising(i) ==
    LET f == TickFrom
        r == RunTick(queue, now_playing, f.cn, started, SubSeq(f.s, 1, i - 1))
        p == f.s[i][2]
    IN  IF r.rest # <<>> \/ Busy(r.cn, p) \/ r.q[p] = <<>>
        THEN [ok |-> FALSE]
        ELSE [ok |-> TRUE,
              q |-> [r.q EXCEPT ![p] = Requeue(Pop(r.q[p]).rest, Pop(r.q[p]).item, loop[p])],
              np |-> [r.np EXCEPT ![p] = Pop(r.q[p]).item],
              cn |-> r.cn,
              st |-> r.st,
              after |-> SubSeq(f.s, i + 1, Len(f.s))]

\* line 102: connection.play() raises
TickPlayRaises(i, stops) ==
    /\ tickpc # "stopped"
    /\ i \in DOMAIN TickFrom.s
    /\ Raising(i).ok
    /\ LET a == Raising(i)
       IN  /\ queue' = a.q
           /\ now_playing' = a.np
           /\ conn' = a.cn
           /\ started' = a.st
           /\ gain' = [p \in Reqs |-> IF ~Busy(TickFrom.cn, p) /\ a.cn[p] = "playing"
                                       THEN Nominal ELSE gain[p]]
    /\ players' = TickFrom.reg
    /\ snap' = <<>>
    /\ tickpc' = AfterRaise(stops)
    /\ UNCHANGED <<loop, pc, reqChan, enqueued, cmds>>
    /\ UNCHANGED exceptTick

NextFaulty ==
    \/ NextFifo
    \/ \E stops \in BOOLEAN : TickDisconnectRaises(stops)
    \/ \E i \in 1..NumReqs, stops \in BOOLEAN : TickPlayRaises(i, stops)

SpecFaulty == Init /\ [][NextFaulty]_vars

\* ----------------------------------------------------------------- volume
Max(a, b) == IF a > b THEN a ELSE b

\* line 197, as a bug would have it: no lower limit
Clamp_NoFloor(pct) == Min(200, pct)

\* line 197: max(0.5, min(2.0, volume_percentage / 100)), in percent
Clamp(pct) == Max(50, Min(200, pct))

\* lines 51 and 59: connection.source is a PCMVolumeTransformer.  It is the
\* one of line 102 while the stream plays or is paused, and there is none
\* before the first play(); whether the transport keeps the source of a stream
\* that has ended is its own affair (kept).
IsVolumeTransformer(p, kept) == Busy(conn, p) \/ (now_playing[p] # None /\ kept)

\* lines 186-198 with a percentage
Volume(c, pct, kept) ==
    /\ Counted
    /\ Lookup(players, c) # None
    /\ LET p == Lookup(players, c)
       IN  IF IsVolumeTransformer(p, kept)
           THEN /\ volres' = "set"
                /\ gain' = [gain EXCEPT ![p] = Clamp(pct)]
           ELSE /\ volres' = "ValueError"
                /\ UNCHANGED gain
    /\ UNCHANGED <<players, queue, now_playing, loop, conn, pc, reqChan, tickpc, snap,
                   started, enqueued>>
    /\ UNCHANGED exceptVolume

\* lines 186-196 without a percentage: the volume is read and replied
VolumeQuery(c, kept) ==
    /\ Counted
    /\ Lookup(players, c) # None
    /\ volres' = IF IsVolumeTransformer(Lookup(players, c), kept) THEN "read" ELSE "ValueError"
    /\ UNCHANGED <<players, queue, now_playing, loop, conn, pc, reqChan, tickpc, snap,
                   started, enqueued, gain>>
    /\ UNCHANGED exceptVolume

\* The same program when every resolution and every connect succeeds and the
\* only command besides play is volume.
NextVolume ==
    \/ \E r \in Reqs, c \in Channels : PlayStart(r, c)
    \/ \E r \in Reqs : PlayResolved(r)
    \/ \E r \in Reqs : PlayConnected(r)
    \/ TickStep
    \/ FinishStep
    \/ \E c \in Channels, pct \in Percentages, kept \in BOOLEAN : Volume(c, pct, kept)
    \/ \E c \in Channels, kept \in BOOLEAN : VolumeQuery(c, kept)

SpecVolume == Init /\ [][NextVolume]_vars

\* ------------------------------------------- play, its resolution step by step
\* The resolution of lines 123-128 followed await by await: stage[r] is "id"
\* in spotify_to_youtube_id, "video" in get_video, "audio" in the request of
\* get_audio_url, "ready" when line 128 has returned.
UrlKinds == {"invalid", "direct", "spotify"}

\* the exception each kind of failure raises: BadResponseError at lines 299,
\* 333, 385, 387; ValueError at line 412 and from max() of no formats at line
\* 321; IndexError from search[0] of no results at line 394
Raises(kind) ==
    CASE kind = "UpstreamError" -> "BadResponseError"
      [] kind = "InvalidToken" -> "BadResponseError"
      [] kind = "InvalidCredentials" -> "ValueError"
      [] kind = "NoAudioFormat" -> "ValueError"
      [] kind = "NoMatch" -> "IndexError"

\* line 129: except BadResponseError
Caught(exc) == exc = "BadResponseError"

\* lines 126 and 131, as a bug would have it: no return after the reply, the
\* handler goes on to lines 133-141
Return_Missing(r) ==
    LET p == Lookup(players, reqChan[r])
    IN  IF p # None
        THEN /\ Enqueue(r, p)
             /\ UNCHANGED conn
        ELSE /\ pc' = [pc EXCEPT ![r] = "connect"]
             /\ UNCHANGED <<players, queue, enqueued, conn>>

\* lines 126 and 131: return
Return(r) ==
    /\ pc' = [pc EXCEPT ![r] = "done"]
    /\ UNCHANGED <<players, queue, enqueued, conn>>

\* lines 124-126 and 129-131: the handler ends on a failure of the given kind,
\* with a reply, or with the exception going up to the caller
PlayFails(r, kind) ==
    /\ failure' = [failure EXCEPT ![r] = kind]
    /\ stage' = [stage EXCEPT ![r] = "none"]
    /\ IF kind = "InvalidInput"
       THEN /\ reply' = [reply EXCEPT ![r] = "Invalid URL"]
            /\ Return(r)
            /\ UNCHANGED raised
       ELSE IF Caught(Raises(kind))
       THEN /\ reply' = [reply EXCEPT ![r] = "Error: " \o kind]
            /\ Return(r)
            /\ UNCHANGED raised
       ELSE /\ raised' = [raised EXCEPT ![r] = Raises(kind)]
            /\ pc' = [pc EXCEPT ![r] = "done"]
            /\ UNCHANGED <<players, queue, enqueued, conn, reply>>
    /\ UNCHANGED <<now_playing, loop, reqChan, tickpc, snap, started, cmds>>
    /\ UNCHANGED exceptResolve

Proceeds(r, to) ==
    /\ stage' = [stage EXCEPT ![r] = to]
    /\ UNCHANGED <<failure, reply, raised>>
    /\ UNCHANGED playerVars
    /\ UNCHANGED exceptResolve

\* lines 123-127 and 367-376: to_invidious_id matches the url against its
\* patterns: none matches, one yields the id, or the track id goes to spotify
ResolveUrl(r, kind) ==
    /\ pc[r] = "resolve" /\ stage[r] = "none"
    /\ CASE kind = "invalid" -> PlayFails(r, "InvalidInput")
         [] kind = "direct" -> Proceeds(r, "video")
         [] kind = "spotify" -> Proceeds(r, "id")

\* lines 378-394: spotify_to_youtube_id returns an id or raises
SpotifyAnswered(r, res) ==
    /\ pc[r] = "resolve" /\ stage[r] = "id"
    /\ CASE res = "id" -> Proceeds(r, "video")
         [] res = "invalid_client" -> PlayFails(r, "InvalidCredentials")
         [] res = "401" -> PlayFails(r, "InvalidToken")
         [] res = "not_200" -> PlayFails(r, "UpstreamError")
         [] res = "no_results" -> PlayFails(r, "NoMatch")

\* lines 127-128 and 320-324: get_video returns the data (get_audio_url picks
\* the best audio format, or max() finds none) or raises after its retry
VideoAnswered(r, res) ==
    /\ pc[r] = "resolve" /\ stage[r] = "video"
    /\ CASE res = "data" -> Proceeds(r, "audio")
         [] res = "data_without_audio" -> PlayFails(r, "NoAudioFormat")
         [] res = "error" -> PlayFails(r, "UpstreamError")

\* lines 325-334: the latest_version request is answered
AudioAnswered(r, res) ==
    /\ pc[r] = "resolve" /\ stage[r] = "audio"
    /\ CASE res = "ok" -> Proceeds(r, "ready")
         [] res = "not_ok" -> PlayFails(r, "UpstreamError")

\* lines 133-141 after a resolution followed step by step
PlayReady(r) == stage[r] = "ready" /\ PlayResolved(r)

NextPlay ==
    \/ \E r \in Reqs, c \in Channels : PlayStart(r, c)
    \/ \E r \in Reqs, kind \in UrlKinds : ResolveUrl(r, kind)
    \/ \E r \in Reqs, res \in {"id", "invalid_client", "401", "not_200", "no_results"} :
            SpotifyAnswered(r, res)
    \/ \E r \in Reqs, res \in {"data", "data_without_audio", "error"} : VideoAnswered(r, res)
    \/ \E r \in Reqs, res \in {"ok", "not_ok"} : AudioAnswered(r, res)
    \/ \E r \in Reqs : PlayReady(r)
    \/ \E r \in Reqs : PlayConnected(r)
    \/ \E r \in Reqs : PlayConnectFails(r)
    \/ TickStep
    \/ FinishStep
    \/ \E c \in Channels : Pause(c)

SpecPlay == Init /\ [][NextPlay]_vars

\* --------------------------------------------------------------- Invidious
\* what GET /api/v1/videos/{id} can answer: an object with an "error" field,
\* or the data of a video
Responses ==
    {[error |-> TRUE, data |-> None]} \cup {[error |-> FALSE, data |-> v] : v \in Videos}

\* lines 305-307, as a bug would have it: every BadResponseError is retried
Retries_Always(attempt) == TRUE

\* lines 303-307: only the inner() of line 304 is inside the try
Retries(attempt) == attempt = "first"

\* lines 293-304: get_video is called and inner() sends its request
FetchStart(f) ==
    /\ fpc[f] = "idle"
    /\ \A f2 \in Fetches : f2 < f => fpc[f2] # "idle"
    /\ fpc' = [fpc EXCEPT ![f] = "first"]
    /\ lookups' = [lookups EXCEPT ![f] = 1]
    /\ UNCHANGED <<answers, fetched>>
    /\ UNCHANGED exceptFetch

\* lines 296-300 and 303-307: a response arrives; inner() returns its data or
\* raises BadResponseError, which get_video answers with one more inner() when
\* it came from the first one, and lets through otherwise
FetchAnswered(f, resp) ==
    /\ fpc[f] \in {"first", "second"}
    /\ answers' = [answers EXCEPT ![f] = Append(@, resp)]
    /\ IF ~resp.error
       THEN /\ fpc' = [fpc EXCEPT ![f] = "returned"]
            /\ fetched' = [fetched EXCEPT ![f] = resp.data]
            /\ UNCHANGED lookups
       ELSE IF Retries(fpc[f])
       THEN /\ fpc' = [fpc EXCEPT ![f] = "second"]
            /\ lookups' = [lookups EXCEPT ![f] = @ + 1]
            /\ UNCHANGED fetched
       ELSE /\ fpc' = [fpc EXCEPT ![f] = "raised"]
            /\ UNCHANGED <<lookups, fetched>>
    /\ UNCHANGED exceptFetch

NextFetch ==
    \/ \E f \in Fetches : FetchStart(f)
    \/ \E f \in Fetches, resp \in Responses : FetchAnswered(f, resp)

SpecFetch == Init /\ [][NextFetch]_vars

\* -------------------------------------------------- the search for a track
\* str.join
RECURSIVE Join(_, _)
Join(sep, s) ==
    IF s = <<>> THEN ""
    ELSE IF Len(s) = 1 THEN s[1]
    ELSE s[1] \o sep \o Join(sep, Tail(s))

\* line 392
Query(name, artists) == name \o " by " \o Join(" ", artists)

\* lines 390-393: the track data arrive; the query is built and the search sent
TrackData(t) ==
    /\ qpc = "idle"
    /\ track' = t
    /\ query' = Query(t.name, t.artists)
    /\ searches' = searches + 1
    /\ qpc' = "search"
    /\ UNCHANGED <<results, found>>
    /\ UNCHANGED exceptQuery

\* lines 393-394: the search is answered; search[0] raises IndexError on an
\* empty list
SearchAnswered(res) ==
    /\ qpc = "search"
    /\ results' = res
    /\ IF res = <<>>
       THEN qpc' = "raised" /\ UNCHANGED found
       ELSE qpc' = "returned" /\ found' = res[1]
    /\ UNCHANGED <<track, query, searches>>
    /\ UNCHANGED exceptQuery

NextQuery ==
    \/ \E t \in Tracks : TrackData(t)
    \/ \E res \in SearchResults : SearchAnswered(res)

SpecQuery == Init /\ [][NextQuery]_vars

\* ------------------------------------------------------------ vocabulary
Range(s) == {s[i] : i \in DOMAIN s}

Pos(s, x) == CHOOSE i \in DOMAIN s : s[i] = x

Count(s, x) == Cardinality({i \in DOMAIN s : s[i] = x})

\* s lists some of the elements of t, each once, in the order t has them
InOrder(s, t) ==
    /\ \A i \in DOMAIN s : s[i] \in Range(t)
    /\ \A i, j \in DOMAIN s : i < j => Pos(t, s[i]) < Pos(t, s[j])

\* the ChannelPlayer objects whose connection was opened for channel c
Objects(c) == {p \in Reqs : conn[p] # "none" /\ reqChan[p] = c}

TypeOK ==
    /\ \A i, j \in DOMAIN players : i # j => players[i][1] # players[j][1]
    /\ \A i \in DOMAIN players : conn[players[i][2]] \in {"idle", "playing", "paused"}
    /\ tickpc = "disconnect" <=> snap # <<>>
    /\ cmds \in 0..MaxCmds

\* ------------------------------------------------------------------ claims
\* C1: each channel has at most one item being streamed at a time: no two
\* connections opened for one channel are playing or paused together.
C1_OneStreamPerChannel ==
    \A c \in Channels : Cardinality({p \in Objects(c) : Busy(conn, p)}) <= 1

\* C2: get-or-create of a channel's queue is atomic: a channel never has two
\* open connections, and a registered ChannelPlayer is never replaced by
\* another one.
C2_OneOpenConnection ==
    \A c \in Channels : Cardinality({p \in Objects(c) : conn[p] # "closed"}) <= 1

C2_NoOverwrite ==
    \A c \in Channels :
        (Lookup(players, c) # None /\ Lookup(players', c) # None)
            => Lookup(players', c) = Lookup(players, c)

C2_AtomicGetOrCreate == []C2_OneOpenConnection /\ [][C2_NoOverwrite]_vars

\* C3: without loop and skip, the items started on a channel are started in
\* the order they were enqueued, each at most once, and what is pending in a
\* player is in enqueue order and not started yet.
C3_FifoOrder ==
    /\ \A c \in Channels :
        /\ InOrder(started[c], enqueued[c])
        /\ \A x \in Reqs : Count(started[c], x) <= 1
    /\ \A p \in Reqs :
        /\ InOrder(queue[p], enqueued[reqChan[p]])
        /\ Range(queue[p]) \cap Range(started[reqChan[p]]) = {}

C3_Witness ==
    \E c \in Channels : Len(started[c]) >= 2 /\ started[c] = enqueued[c]

\* C4: without loop and skip, no acknowledged item is lost; in particular a
\* play handler never appends to the queue that the tick disconnects and
\* removes, so no item is left pending in a player whose connection the
\* scheduler has closed.
C4_NoItemLost == \A p \in Reqs : conn[p] = "closed" => queue[p] = <<>>

\* C5: a tick that comes to a registered player that is neither playing nor
\* paused and has nothing pending disconnects it and deletes its channel from
\* the registry before the tick ends; so, without loop, a channel does not
\* stay in the registry for ever unless it is left paused: again and again it
\* is absent from the registry or its player is paused.
IdleEmpty(p) == ~Busy(conn, p) /\ queue[p] = <<>>

InSeq(s, e) == \E i \in DOMAIN s : s[i] = e

C5_TickIssues ==
    Tick => \A i \in DOMAIN players :
                IdleEmpty(players[i][2]) => tickpc' = "disconnect" /\ InSeq(snap', players[i])

C5_TickRemoves ==
    TickDisconnected =>
        /\ Lookup(players', snap[1][1]) = None
        /\ conn'[snap[1][2]] = "closed"
        /\ \A i \in 2..Len(snap) :
                IdleEmpty(snap[i][2]) => tickpc' = "disconnect" /\ InSeq(snap', snap[i])

Settled == cmds = MaxCmds /\ \A r \in Reqs : pc[r] = "done"

Absent(c) == Lookup(players, c) = None

LeftPaused(c) == ~Absent(c) /\ conn[Lookup(players, c)] = "paused"

C5_Removed ==
    /\ [][C5_TickIssues /\ C5_TickRemoves]_vars
    /\ \A c \in Channels : []<>(Absent(c) \/ LeftPaused(c))

C5_Witness ==
    \E c \in Channels :
        /\ Settled
        /\ Len(started[c]) >= 2
        /\ Lookup(players, c) = None
        /\ \E p \in Objects(c) : conn[p] = "closed"

\* C6: with loop on, a tick that starts an item of a player takes the head of
\* its pending and appends that same item to the tail, so pending keeps its
\* length, the head becomes now_playing and is the item started (from [X, Y]
\* the starts are X, Y, X, ...).
Starts(p) == ~Busy(conn, p) /\ conn'[p] = "playing"

C6_Rotation ==
    \A p \in Reqs :
        (Starts(p) /\ loop[p]) =>
            /\ queue[p] # <<>>
            /\ queue'[p] = Append(Tail(queue[p]), Head(queue[p]))
            /\ Len(queue'[p]) = Len(queue[p])
            /\ now_playing'[p] = Head(queue[p])
            /\ started'[reqChan[p]] = Append(started[reqChan[p]], Head(queue[p]))

C6_LoopRotates == [][C6_Rotation]_vars

C6_Witness ==
    \E p \in Reqs :
        LET st == started[reqChan[p]]
        IN  /\ loop[p]
            /\ Len(queue[p]) = 2
            /\ Len(st) >= 3
            /\ st[Len(st)] = st[Len(st) - 2]
            /\ st[Len(st)] # st[Len(st) - 1]
            /\ queue[p] = <<st[Len(st) - 1], st[Len(st)]>>

\* C7: skip(n) with loop on turns pending p into p without its first
\* min(n, len(p)) items, followed by exactly those items in their order.
C7_Skip ==
    \A c \in Channels, n \in 0..MaxSkip :
        LET p == Lookup(players, c)
        IN  (Skip(c, n) /\ loop[p]) =>
                queue'[p] = Drop(queue[p], n) \o Take(queue[p], n)

C7_SkipLoopKeepsItems == [][C7_Skip]_vars

\* C8: skip(n) with loop off leaves pending without its first min(n, len)
\* items (empty when n >= len) and changes neither now_playing, nor the loop
\* flag, nor the transport's status, nor the registry.
C8_Skip ==
    cmds' # cmds =>
        \A c \in Channels :
            LET p == Lookup(players, c)
            IN  (p # None /\ ~loop[p]) =>
                    \A n \in 0..MaxSkip :
                        Skip(c, n) =>
                            /\ Len(queue'[p]) = Len(queue[p]) - Min(n, Len(queue[p]))
                            /\ \A i \in DOMAIN queue'[p] : queue'[p][i] = queue[p][i + n]
                            /\ n >= Len(queue[p]) => queue'[p] = <<>>
                            /\ \A o \in Reqs \ {p} : queue'[o] = queue[o]
                            /\ UNCHANGED <<now_playing, loop, conn, players>>

C8_SkipDropsPrefix == [][C8_Skip]_vars

\* an item was taken out of the pending of a player that never looped or
\* played, and the item after it is still pending
C8_Witness ==
    \E p \in Reqs :
        /\ Lookup(players, reqChan[p]) = p
        /\ Objects(reqChan[p]) = {p}
        /\ ~loop[p]
        /\ started[reqChan[p]] = <<>>
        /\ Len(enqueued[reqChan[p]]) = 2
        /\ queue[p] = Tail(enqueued[reqChan[p]])

\* C9: a skip on a looping channel keeps the loop cycle: pending afterwards is
\* a rotation of pending before (the same items, as often, in the same cyclic
\* order), so every item of the cycle keeps being started.
IsRotation(s, t) == \E k \in 0..Len(t) : s = Drop(t, k) \o Take(t, k)

C9_Skip ==
    \A c \in Channels, n \in 0..MaxSkip :
        LET p == Lookup(players, c)
        IN  (Skip(c, n) /\ loop[p]) => IsRotation(queue'[p], queue[p])

C9_SkipKeepsCycle == [][C9_Skip]_vars

\* C10: a track resolution that begins while the cached token is more than 15
\* minutes from its expiry posts no token request and sends the cached token.
C10_TokenReused ==
    \A k \in Calls :
        validAtStart[k] =>
            /\ tpc[k] # "post"
            /\ tpc[k] = "get" => sent[k] = cachedAtStart[k]

\* C11: a track resolution that begins with no cached token, or with a cached
\* token that is expired or within 15 minutes of its expiry, performs a token
\* exchange before its track request; so the bearer token of a track request
\* is never one that was already inside the margin when the resolution began.
Exchanged(k) == tpc[k] \in {"post", "invalid_client"} \/ sent[k] = k

C11_TokenRefreshed ==
    \A k \in Calls :
        (tpc[k] # "idle" /\ ~validAtStart[k]) =>
            /\ Exchanged(k)
            /\ sent[k] # None => sent[k] # cachedAtStart[k]

\* C12: get_video retries exactly once: a call issues at most two lookups, the
\* second one only after the first response carried an error; it returns the
\* first response's data when that one is valid, the second's when the first
\* had an error and the second is valid, and raises BadResponseError, with no
\* third lookup, when both had one.
C12_Call(f) ==
    LET a == answers[f]
    IN  /\ lookups[f] <= 2
        /\ Len(a) <= lookups[f]
        /\ lookups[f] = 2 <=> (Len(a) >= 1 /\ a[1].error)
        /\ fpc[f] = "returned" <=> (a # <<>> /\ ~a[Len(a)].error)
        /\ fpc[f] = "returned" => fetched[f] = a[Len(a)].data
        /\ fpc[f] = "raised" <=> (Len(a) = 2 /\ a[1].error /\ a[2].error)
        /\ fpc[f] # "returned" => fetched[f] = None

C12_RetryOnce == \A f \in Fetches : C12_Call(f)

C12_Witness ==
    \E f, g \in Fetches :
        /\ fpc[f] = "returned" /\ Len(answers[f]) = 2 /\ fetched[f] = answers[f][2].data
        /\ fpc[g] = "raised" /\ lookups[g] = 2

\* C13: a play request that fails in its resolution, item fetch or audio
\* negotiation leaves the registry as it was: no step of its resolution, the
\* failing one included, changes players, a queue or a connection, its first
\* step opens no connection, and the request never has a connection opened,
\* an entry registered or an item enqueued.
Failed(r) == failure[r] # "none"

C13_NothingFromFailed ==
    \A r \in Reqs :
        Failed(r) =>
            /\ conn[r] = "none"
            /\ \A i \in DOMAIN players : players[i][2] # r
            /\ \A c \in Channels : r \notin Range(enqueued[c])
            /\ \A p \in Reqs : r \notin Range(queue[p])

C13_ResolutionSteps ==
    \A r \in Reqs :
        /\ (stage'[r] # stage[r] \/ failure'[r] # failure[r]) =>
                UNCHANGED <<players, queue, enqueued, conn>>
        /\ (pc[r] = "init" /\ pc'[r] # "init") =>
                /\ UNCHANGED <<players, queue, enqueued>>
                /\ \A p \in Reqs : conn[p] = "none" => conn'[p] = "none"

C13_FailureLeavesRegistry == []C13_NothingFromFailed /\ [][C13_ResolutionSteps]_vars

\* a request has failed while its channel has a player with an item pending
C13_Witness ==
    \E r \in Reqs :
        /\ Failed(r)
        /\ Lookup(players, reqChan[r]) # None
        /\ queue[Lookup(players, reqChan[r])] # <<>>

\* C14: every failure of play ends with an error reply to the user, for each
\* kind of failure; no exception leaves the handler.
C14_FailureReplied ==
    \A r \in Reqs : Failed(r) => reply[r] # "none" /\ raised[r] = "none"

\* C15: play resumes the transport if and only if it has no url and the
\* caller's channel has a player that is paused with nothing pending, and then
\* changes nothing else; without a url in any other state it changes neither
\* a queue nor the transport; with a url it goes to the resolution without
\* resuming the transport.
PausedEmpty(c) ==
    LET p == Lookup(players, c)
    IN  p # None /\ conn[p] = "paused" /\ queue[p] = <<>>

C15_Play ==
    (cmds' # cmds \/ pc' # pc) =>
        \A c \in Channels :
            /\ PlayNoUrl(c) =>
                /\ UNCHANGED <<players, queue, pc>>
                /\ IF PausedEmpty(c)
                   THEN conn' = [conn EXCEPT ![Lookup(players, c)] = "playing"]
                   ELSE UNCHANGED conn
            /\ \A r \in Reqs :
                PlayStart(r, c) =>
                    /\ pc'[r] = "resolve"
                    /\ UNCHANGED <<players, queue, conn>>

C15_ResumeOnlyWithoutUrl == [][C15_Play]_vars

\* C16: volume(percentage) sets the gain to the percentage clamped to 50..200
\* (50 below 50, 200 above 200, the percentage itself otherwise), and fails
\* with the ValueError of ChannelPlayer.volume, leaving gain, queues and
\* players as they were, whenever the connection's source is no volume
\* transformer, as when the registered player has no source yet.
C16_Volume ==
    cmds' # cmds =>
        \A c \in Channels :
            LET p == Lookup(players, c)
            IN  p # None =>
                    \A pct \in Percentages, kept \in BOOLEAN :
                        Volume(c, pct, kept) =>
                            /\ Busy(conn, p) => volres' = "set"
                            /\ (~Busy(conn, p) /\ (now_playing[p] = None \/ ~kept)) =>
                                    volres' = "ValueError"
                            /\ volres' = "set" =>
                                /\ gain'[p] = (IF pct < 50 THEN 50
                                               ELSE IF pct > 200 THEN 200 ELSE pct)
                                /\ gain'[p] >= 50 /\ gain'[p] <= 200
                                /\ \A o \in Reqs \ {p} : gain'[o] = gain[o]
                            /\ volres' # "set" => volres' = "ValueError" /\ UNCHANGED gain
                            /\ UNCHANGED <<queue, players, now_playing, loop, conn>>

C16_VolumeClamped == [][C16_Volume]_vars

\* a volume above the range was set on a player, and a later volume command
\* on a player without a usable source failed and left that gain
C16_Witness ==
    /\ volres = "ValueError"
    /\ \E p \in Reqs : gain[p] = 200

\* C17: when disconnect() or play() raises for one channel during a tick, the
\* same tick goes on with the channels of its snapshot that come after it, as
\* it does after an entry that raised nothing.
ContinuesWith(q, np, cn, st, s) ==
    LET r == RunTick(q, np, cn, st, s)
    IN  /\ queue' = r.q
        /\ now_playing' = r.np
        /\ conn' = r.cn
        /\ started' = r.st
        /\ snap' = r.rest

C17_Tick ==
    /\ \A stops \in BOOLEAN :
            TickDisconnectRaises(stops) =>
                ContinuesWith(queue, now_playing, conn, started, Tail(snap))
    /\ \A i \in 1..NumReqs, stops \in BOOLEAN :
            TickPlayRaises(i, stops) =>
                LET a == Raising(i)
                IN  ContinuesWith(a.q, a.np, a.cn, a.st, a.after)

C17_TickGoesOn == [][C17_Tick]_vars

\* C18: a call whose track request was answered 401 has failed for good (no
\* second request in that call), the token it sent is no longer the cached
\* one, and a resolution that begins afterwards does not send that token.
Rejected(k) == tpc[k] = "invalid_token"

C18_Dropped == \A k \in Calls : Rejected(k) => spotify_token # sent[k]

C18_Next ==
    \A k \in Calls :
        Rejected(k) =>
            /\ tpc'[k] = tpc[k] /\ sent'[k] = sent[k]
            /\ \A k2 \in Calls :
                    (tpc[k2] = "idle" /\ tpc'[k2] # "idle") => sent'[k2] # sent[k]

C18_RejectedTokenDropped == []C18_Dropped /\ [][C18_Next]_vars

\* C19: a step of the tick changes nothing of a player whose connection is
\* playing or paused: its pending, now_playing, loop flag and connection stay
\* as they are (no play, no disconnect), and a channel registered to such a
\* player stays registered to it, also when its pending is empty.
C19_Tick ==
    TickStep =>
        /\ \A p \in Reqs :
                conn[p] \in {"playing", "paused"} =>
                    /\ queue'[p] = queue[p]
                    /\ now_playing'[p] = now_playing[p]
                    /\ loop'[p] = loop[p]
                    /\ conn'[p] = conn[p]
        /\ \A i \in DOMAIN players :
                conn[players[i][2]] \in {"playing", "paused"} =>
                    Lookup(players', players[i][1]) = players[i][2]

C19_BusyLeftAlone == [][C19_Tick]_vars

\* a tick has run while the one registered player was paused with nothing
\* pending, and the player is still registered and paused
C19_Witness ==
    \E p \in Reqs :
        /\ Lookup(players, reqChan[p]) = p
        /\ conn[p] = "paused"
        /\ queue[p] = <<>>
        /\ \E o \in Reqs \ {p} : conn[o] = "closed"

\* C20: the search query for a track is its name, " by ", and its artists'
\* names in their order separated by ", "; exactly one search is sent, with
\* that query, and the id returned is the first result's.
C20_QueryAndFirstResult ==
    qpc # "idle" =>
        /\ query = track.name \o " by " \o Join(", ", track.artists)
        /\ searches = 1
        /\ qpc = "returned" => found = results[1]

====
